---- MODULE Spec2Model ----
(***************************************************************************)
(* Model of the time-series alignment / windowing logic of the             *)
(* greenhouse-effect-experiment figure scripts                             *)
(* (src/figure--indoorheating/utils.py and the scripts that call it).      *)
(*                                                                         *)
(* Timestamps are whole seconds, temperatures are tenths of a degree       *)
(* Celsius (44.3 C is 443).  A DataFrame is a sequence of rows; every row  *)
(* carries its pandas index label in the field "index".  Python's None is  *)
(* the empty tuple and a present value v is the one-element tuple <<v>>.   *)
(*                                                                         *)
(* The region and annotation code of figure_resyncexp.py,                  *)
(* figure-sep13exp.py and figure1.py, utils.format_time and                *)
(* figure4.load_data are modelled further down, each under a specification *)
(* of its own.                                                             *)
(***************************************************************************)
EXTENDS Integers, Sequences, FiniteSets, TLC

VARIABLES
    data,               \* the loaded source table (a DataFrame, rows in file order)
    time_periods,       \* the declared periods, in dict order
    call,               \* the arguments of the filter_time_periods call
    pc,                 \* "start" | "returned" | "raised"
    period_data,        \* filter_time_periods: period name -> DataFrame
    reference_points,   \* filter_time_periods: period name -> None | <<seconds>>
    avg_reference_time, \* filter_time_periods: None | <<sum, count>> (printed only)
    error,              \* None | <<exception type, argument>>
    shown,              \* None | <<period name, min_seconds, max_seconds>>
    df_filtered,        \* the rows handed to the plot by the last display filter
    result,             \* None | <<the object filter_time_periods returned>>
    shorter,            \* None | <<mins, the rows create_shorter_version plots>>
    resyncexp,          \* None | the locals of figure_resyncexp's region code
    sep13exp,           \* None | the locals of figure-sep13exp's annotation code
    figure1,            \* None | the locals of figure1's annotation code
    tick,               \* None | a tick value and the label format_time gave it
    figure4             \* None | figure4.load_data: the data directory and position

\* the state of the scripts that are modelled apart from the alignment
figures == <<resyncexp, sep13exp, figure1, tick, figure4>>

vars == <<data, time_periods, call, pc, period_data, reference_points,
          avg_reference_time, error, shown, df_filtered, result, shorter,
          resyncexp, sep13exp, figure1, tick, figure4>>

----------------------------------------------------------------------------
(* Bounds of the model and the small input sets                             *)

MaxRows == 3

None == <<>>

DefaultStartOffset == 120

TARGET_TEMP == 443

min_seconds == -60

max_seconds == 3600

Times == {0, 60, 120}

Temps == {TARGET_TEMP, 500}

PeriodNames == <<"A", "B">>

StartOffsets == {DefaultStartOffset, 60}

MinSecondsChoices == {min_seconds, 0}

MaxSecondsChoices == {max_seconds, 60}

MinsChoices == {10, 2, 1}

Columns == {"Datetime", "bottom"}

EmptyMap == [n \in {} |-> None]

----------------------------------------------------------------------------
(* Generic helpers                                                          *)

SetMin(S) == CHOOSE x \in S : \A y \in S : x <= y

SetMax(S) == CHOOSE x \in S : \A y \in S : x >= y

RECURSIVE SetSum(_)
SetSum(S) ==
    IF S = {} THEN 0
    ELSE LET x == CHOOSE y \in S : TRUE IN x[2] + SetSum(S \ {x})

\* dict assignment d[key] = value
Put(d, key, value) ==
    [n \in DOMAIN d \cup {key} |-> IF n = key THEN value ELSE d[n]]

----------------------------------------------------------------------------
(* utils.load_dataset: the table gets pandas' default RangeIndex 0..n-1     *)

load_dataset(rows) ==
    [k \in 1..Len(rows) |->
        [index |-> k - 1, Datetime |-> rows[k].Datetime, bottom |-> rows[k].bottom]]

----------------------------------------------------------------------------
(* utils.find_target_temp_index                                             *)

\* mask = df[temp_col].astype(float) <= target_temp
TargetMask(df, temp_col, target_temp) ==
    {k \in 1..Len(df) : df[k][temp_col] <= target_temp}

\* the mutant falls back to the last sample when nothing reaches the target
find_target_temp_index_fallback(df, temp_col, target_temp) ==
    LET mask == TargetMask(df, temp_col, target_temp)
    IN  IF mask # {}
        THEN <<SetMin({df[k].index : k \in mask})>>
        ELSE <<df[Len(df)].index>>

\* the mutant takes the last sample at or below the target
find_target_temp_index_last(df, temp_col, target_temp) ==
    LET mask == TargetMask(df, temp_col, target_temp)
    IN  IF mask # {}
        THEN <<SetMax({df[k].index : k \in mask})>>
        ELSE None

find_target_temp_index(df, temp_col, target_temp) ==
    LET mask == TargetMask(df, temp_col, target_temp)
    IN  IF mask # {}
        THEN <<SetMin({df[k].index : k \in mask})>>
        ELSE None

\* df.loc[label, 'seconds']
LocSeconds(df, label) ==
    LET k == CHOOSE j \in 1..Len(df) : df[j].index = label IN df[k].seconds

----------------------------------------------------------------------------
(* utils.filter_time_periods, the loop over the periods                     *)

\* the mutant excludes a sample at exactly the period's end
PeriodMask_strict_end(source_data, start_time, end_time) ==
    {k \in 1..Len(source_data) :
        source_data[k].Datetime >= start_time /\ source_data[k].Datetime < end_time}

\* mask = (source_data['Datetime'] >= start_time) & (source_data['Datetime'] <= end_time)
PeriodMask(source_data, start_time, end_time) ==
    {k \in 1..Len(source_data) :
        source_data[k].Datetime >= start_time /\ source_data[k].Datetime <= end_time}

\* source_data[mask].copy(): the selected rows, in order, with their labels
SelectRows(df, mask) ==
    SelectSeq(df, LAMBDA row : \E k \in mask : df[k] = row)

\* the mutant forgets to subtract the start offset
RelativeSeconds_no_offset(period_df, start_time, start_offset) ==
    [k \in 1..Len(period_df) |->
        [index    |-> period_df[k].index,
         Datetime |-> period_df[k].Datetime,
         bottom   |-> period_df[k].bottom,
         seconds  |-> period_df[k].Datetime - period_df[1].Datetime]]

\* the mutant measures from the start of the selection window
RelativeSeconds_from_window(period_df, start_time, start_offset) ==
    [k \in 1..Len(period_df) |->
        [index    |-> period_df[k].index,
         Datetime |-> period_df[k].Datetime,
         bottom   |-> period_df[k].bottom,
         seconds  |-> (period_df[k].Datetime - start_time) - start_offset]]

\* period_df['seconds'] = (Datetime - Datetime.iloc[0]).dt.total_seconds() - start_offset
RelativeSeconds(period_df, start_time, start_offset) ==
    [k \in 1..Len(period_df) |->
        [index    |-> period_df[k].index,
         Datetime |-> period_df[k].Datetime,
         bottom   |-> period_df[k].bottom,
         seconds  |-> (period_df[k].Datetime - period_df[1].Datetime) - start_offset]]

\* the condition of line 96
WantsReference(args) ==
    args.align_to_temp /\ args.target_temp # None /\ args.apparatus_bottom_col # None

\* the mutant keeps a period whose selection is empty
LoopBody_keep_empty(st, time_range, source_data, args) ==
    LET start_time == time_range.start - args.start_offset
        end_time   == time_range.end
        period_df  == SelectRows(source_data, PeriodMask(source_data, start_time, end_time))
    IN  IF period_df # <<>>
        THEN [st EXCEPT !.period_data =
                 Put(@, time_range.name,
                     RelativeSeconds(period_df, start_time, args.start_offset))]
        ELSE [st EXCEPT !.period_data = Put(@, time_range.name, period_df)]

\* the mutant computes the seconds on the rows of the source table itself
LoopBody_in_place(st, time_range, source_data, args) ==
    LET start_time == time_range.start - args.start_offset
        end_time   == time_range.end
        mask       == PeriodMask(source_data, start_time, end_time)
        period_df  == SelectRows(source_data, mask)
    IN  IF period_df # <<>>
        THEN LET df == RelativeSeconds(period_df, start_time, args.start_offset)
             IN  [st EXCEPT
                    !.period_data = Put(@, time_range.name, df),
                    !.source_data =
                       [k \in 1..Len(source_data) |->
                           IF k \in mask
                           THEN CHOOSE row \in {df[j] : j \in 1..Len(df)} :
                                   row.index = source_data[k].index
                           ELSE source_data[k]]]
        ELSE st

\* the mutant records a missing reference point for a skipped period
LoopBody_empty_is_miss(st, time_range, source_data, args) ==
    LET start_time == time_range.start - args.start_offset
        end_time   == time_range.end
        period_df  == SelectRows(source_data, PeriodMask(source_data, start_time, end_time))
    IN  IF period_df # <<>>
        THEN LET df     == RelativeSeconds(period_df, start_time, args.start_offset)
                 stored == [st EXCEPT !.period_data = Put(@, time_range.name, df)]
             IN  IF WantsReference(args)
                 THEN LET col == args.apparatus_bottom_col[1]
                      IN  IF col \notin Columns
                          THEN [stored EXCEPT !.error = <<"KeyError", col>>]
                          ELSE LET target_idx ==
                                       find_target_temp_index(df, col, args.target_temp[1])
                               IN  IF target_idx # None
                                   THEN [stored EXCEPT !.reference_points =
                                            Put(@, time_range.name,
                                                <<LocSeconds(df, target_idx[1])>>)]
                                   ELSE [stored EXCEPT !.reference_points =
                                            Put(@, time_range.name, None)]
                 ELSE stored
        ELSE IF WantsReference(args)
             THEN [st EXCEPT !.reference_points = Put(@, time_range.name, None)]
             ELSE st

\* one iteration of the for loop, lines 72-108
LoopBody(st, time_range, source_data, args) ==
    LET start_time == time_range.start - args.start_offset
        end_time   == time_range.end
        period_df  == SelectRows(source_data, PeriodMask(source_data, start_time, end_time))
    IN  IF period_df # <<>>
        THEN LET df     == RelativeSeconds(period_df, start_time, args.start_offset)
                 stored == [st EXCEPT !.period_data = Put(@, time_range.name, df)]
             IN  IF WantsReference(args)
                 THEN LET col == args.apparatus_bottom_col[1]
                      IN  IF col \notin Columns
                          THEN [stored EXCEPT !.error = <<"KeyError", col>>]
                          ELSE LET target_idx ==
                                       find_target_temp_index(df, col, args.target_temp[1])
                               IN  IF target_idx # None
                                   THEN [stored EXCEPT !.reference_points =
                                            Put(@, time_range.name,
                                                <<LocSeconds(df, target_idx[1])>>)]
                                   ELSE [stored EXCEPT !.reference_points =
                                            Put(@, time_range.name, None)]
                 ELSE stored
        ELSE st

RECURSIVE RunLoop(_, _, _, _, _)
RunLoop(st, periods, k, source_data, args) ==
    IF k > Len(periods) \/ st.error # None
    THEN st
    ELSE RunLoop(LoopBody(st, periods[k], st.source_data, args), periods, k + 1,
                 source_data, args)

----------------------------------------------------------------------------
(* utils.filter_time_periods, the alignment after the loop                  *)

\* all(time_point is not None for time_point in reference_points.values())
AllFound(points) == \A n \in DOMAIN points : points[n] # None

\* the mutant shifts to the average reference time
time_shift_to_average(ref_time, avg) == ref_time - (avg[1] \div avg[2])

\* time_shift = ref_time - 0
time_shift(ref_time, avg) == ref_time - 0

\* the mutant subtracts the wrong way round
ShiftSeconds_reversed(df, shift) ==
    [k \in 1..Len(df) |-> [df[k] EXCEPT !.seconds = shift - @]]

\* the mutant shifts only the samples from the reference point on
ShiftSeconds_after_reference(df, shift) ==
    [k \in 1..Len(df) |->
        IF df[k].seconds >= shift
        THEN [df[k] EXCEPT !.seconds = @ - shift]
        ELSE df[k]]

\* df['seconds'] = df['seconds'] - time_shift
ShiftSeconds(df, shift) ==
    [k \in 1..Len(df) |-> [df[k] EXCEPT !.seconds = @ - shift]]

\* lines 110-130
AlignAll(st, args) ==
    IF st.error # None
    THEN st
    ELSE IF args.align_to_temp /\ AllFound(st.reference_points)
    THEN IF DOMAIN st.reference_points = {}
         THEN [st EXCEPT !.error = <<"ZeroDivisionError", "division by zero">>]
         ELSE LET avg == <<SetSum({<<n, st.reference_points[n][1]>> :
                                      n \in DOMAIN st.reference_points}),
                           Cardinality(DOMAIN st.reference_points)>>
              IN  [st EXCEPT
                     !.avg_reference_time = avg,
                     !.period_data =
                        [n \in DOMAIN st.period_data |->
                            ShiftSeconds(st.period_data[n],
                                         time_shift(st.reference_points[n][1], avg))]]
    ELSE st

filter_time_periods(periods, source_data, args) ==
    AlignAll(RunLoop([period_data |-> EmptyMap, reference_points |-> EmptyMap,
                      avg_reference_time |-> None, error |-> None,
                      source_data |-> source_data],
                     periods, 1, source_data, args),
             args)

\* return period_data
ReturnValue(st) == <<st.period_data>>

----------------------------------------------------------------------------
(* The display window of the figure scripts                                 *)

\* df[(df['seconds'] >= min_seconds) & (df['seconds'] <= max_seconds)]
DisplayRows(df, lo, hi) ==
    SelectSeq(df, LAMBDA row : row.seconds >= lo /\ row.seconds <= hi)

----------------------------------------------------------------------------
(* utils.create_shorter_version: the filter applied to every plotted line   *)

\* the mutant compares the seconds with the minutes
ShorterRows_minutes(line, mins) ==
    SelectSeq(line, LAMBDA row : row.seconds >= -60 /\ row.seconds <= mins)

\* mask = (x_data >= -60) & (x_data <= mins*60)
ShorterRows(line, mins) ==
    SelectSeq(line, LAMBDA row : row.seconds >= -60 /\ row.seconds <= mins * 60)

----------------------------------------------------------------------------
(* Inputs                                                                   *)

SourceRows == [Datetime : Times, bottom : Temps]

\* a data-logger CSV: at least one row, timestamps non-decreasing
Tables ==
    {t \in UNION {[1..n -> SourceRows] : n \in 1..MaxRows} :
        \A k \in 1..(Len(t) - 1) : t[k].Datetime <= t[k + 1].Datetime}

TimeRanges(name) ==
    {r \in [name : {name}, start : Times, end : Times] : r.start <= r.end}

PeriodSets ==
    {<<>>}
    \cup {<<a>> : a \in TimeRanges(PeriodNames[1])}
    \cup {<<a, b>> : a \in TimeRanges(PeriodNames[1]), b \in TimeRanges(PeriodNames[2])}

Calls ==
    [start_offset : {DefaultStartOffset}, align_to_temp : {TRUE},
     target_temp : {None, <<TARGET_TEMP>>},
     apparatus_bottom_col : {None, <<"bottom">>, <<"missing">>}]
    \cup
    [start_offset : StartOffsets, align_to_temp : {FALSE},
     target_temp : {None}, apparatus_bottom_col : {None}]
    \cup
    [start_offset : StartOffsets \ {DefaultStartOffset}, align_to_temp : {TRUE},
     target_temp : {<<TARGET_TEMP>>}, apparatus_bottom_col : {<<"bottom">>}]

----------------------------------------------------------------------------
(* The state machine                                                        *)

\* the other scripts have not run
FiguresIdle ==
    /\ resyncexp = None
    /\ sep13exp = None
    /\ figure1 = None
    /\ tick = None
    /\ figure4 = None

Init ==
    /\ data \in {load_dataset(t) : t \in Tables}
    /\ time_periods \in PeriodSets
    /\ call = None
    /\ pc = "start"
    /\ period_data = EmptyMap
    /\ reference_points = EmptyMap
    /\ avg_reference_time = None
    /\ error = None
    /\ shown = None
    /\ df_filtered = <<>>
    /\ result = None
    /\ shorter = None
    /\ FiguresIdle

\* the script calls filter_time_periods on the loaded table
Call(args) ==
    /\ pc = "start"
    /\ LET st == filter_time_periods(time_periods, data, args)
       IN  /\ call' = <<args>>
           /\ data' = st.source_data
           /\ result' = IF st.error = None THEN ReturnValue(st) ELSE None
           /\ pc' = IF st.error = None THEN "returned" ELSE "raised"
           /\ period_data' = IF st.error = None THEN st.period_data ELSE EmptyMap
           /\ reference_points' = st.reference_points
           /\ avg_reference_time' = st.avg_reference_time
           /\ error' = st.error
    /\ UNCHANGED <<time_periods, shown, df_filtered, shorter>>
    /\ UNCHANGED figures

\* the mutant clips the stored period in place
DisplayFilter_in_place(name, lo, hi) ==
    /\ pc = "returned"
    /\ shorter = None
    /\ name \in DOMAIN period_data
    /\ df_filtered' = DisplayRows(period_data[name], lo, hi)
    /\ shown' = <<name, lo, hi>>
    /\ period_data' = [period_data EXCEPT ![name] = DisplayRows(@, lo, hi)]
    /\ UNCHANGED <<data, time_periods, call, pc, reference_points,
                   avg_reference_time, error, result, shorter>>
    /\ UNCHANGED figures

\* the plotting loop filters one returned period to the display range; the
\* figure is complete before the shorter versions are made from it
DisplayFilter(name, lo, hi) ==
    /\ pc = "returned"
    /\ shorter = None
    /\ name \in DOMAIN period_data
    /\ df_filtered' = DisplayRows(period_data[name], lo, hi)
    /\ shown' = <<name, lo, hi>>
    /\ UNCHANGED <<data, time_periods, call, pc, period_data, reference_points,
                   avg_reference_time, error, result, shorter>>
    /\ UNCHANGED figures

\* main: a shorter version is made from the figure drawn with the script's
\* display range
CreateShorterVersion(mins) ==
    /\ pc = "returned"
    /\ shown # None
    /\ shown[2] = min_seconds
    /\ shown[3] = max_seconds
    /\ shorter' = <<mins, ShorterRows(df_filtered, mins)>>
    /\ UNCHANGED <<data, time_periods, call, pc, period_data, reference_points,
                   avg_reference_time, error, shown, df_filtered, result>>
    /\ UNCHANGED figures

Next ==
    \/ \E args \in Calls : Call(args)
    \/ \E n \in {PeriodNames[k] : k \in DOMAIN PeriodNames},
          lo \in MinSecondsChoices, hi \in MaxSecondsChoices : DisplayFilter(n, lo, hi)
    \/ \E mins \in MinsChoices : CreateShorterVersion(mins)

Spec == Init /\ [][Next]_vars

----------------------------------------------------------------------------
(* The concrete scenario of the specification's testable properties: one   *)
(* period "A" starting at T0 with a pre-roll of 120 s, a sample every 10 s *)
(* from T0 - 130 s to T0 + 600 s, the reference value 50.0 until it is     *)
(* 40.0 from T0 + 50 s on, and the target 44.0.                            *)

ScenarioStarts == {130 + 10 * i : i \in 0..9}

ScenarioTable(T0) ==
    [k \in 1..74 |->
        [Datetime |-> (T0 - 130) + 10 * (k - 1),
         bottom   |-> IF (T0 - 130) + 10 * (k - 1) < T0 + 50 THEN 500 ELSE 400]]

ScenarioCalls ==
    [start_offset : {DefaultStartOffset}, align_to_temp : BOOLEAN,
     target_temp : {<<440>>}, apparatus_bottom_col : {<<"bottom">>}]

InitScenario ==
    /\ \E T0 \in ScenarioStarts :
          /\ data = load_dataset(ScenarioTable(T0))
          /\ time_periods = <<[name |-> "A", start |-> T0, end |-> T0 + 600]>>
    /\ call = None
    /\ pc = "start"
    /\ period_data = EmptyMap
    /\ reference_points = EmptyMap
    /\ avg_reference_time = None
    /\ error = None
    /\ shown = None
    /\ df_filtered = <<>>
    /\ result = None
    /\ shorter = None
    /\ FiguresIdle

NextScenario ==
    \/ \E args \in ScenarioCalls : Call(args)
    \/ \E lo \in MinSecondsChoices, hi \in MaxSecondsChoices : DisplayFilter("A", lo, hi)
    \/ \E mins \in MinsChoices : CreateShorterVersion(mins)

SpecScenario == InitScenario /\ [][NextScenario]_vars

----------------------------------------------------------------------------
(* The scripts that carry their own copy of the extraction code instead of *)
(* calling utils.filter_time_periods: figure_indoorheating.py (with the    *)
(* alignment to TARGET_TEMP) and figure_indoorheating_65c.py (without).    *)

\* figure_indoorheating.py, the script's own find_target_temp_index
indoorheating_find_target_temp_index(df, temp_col, target_temp) ==
    LET mask == {k \in 1..Len(df) : df[k][temp_col] <= target_temp}
    IN  IF mask # {}
        THEN <<SetMin({df[k].index : k \in mask})>>
        ELSE None

\* the mutant leaves out a period that does not reach the target
indoorheating_LoopBody_drop_miss(st, time_range, start_offset, apparatus_bottom_col) ==
    LET start_time == time_range.start - start_offset
        end_time   == time_range.end
        source_data == st.source_data
        mask       == {k \in 1..Len(source_data) :
                          /\ source_data[k].Datetime >= start_time
                          /\ source_data[k].Datetime <= end_time}
        period_df  == SelectRows(source_data, mask)
    IN  IF period_df # <<>>
        THEN LET df == [k \in 1..Len(period_df) |->
                          [index    |-> period_df[k].index,
                           Datetime |-> period_df[k].Datetime,
                           bottom   |-> period_df[k].bottom,
                           seconds  |-> (period_df[k].Datetime - period_df[1].Datetime)
                                            - start_offset]]
                 stored == [st EXCEPT !.period_data = Put(@, time_range.name, df)]
                 target_idx ==
                     indoorheating_find_target_temp_index(df, apparatus_bottom_col,
                                                          TARGET_TEMP)
             IN  IF target_idx # None
                 THEN [stored EXCEPT !.reference_points =
                          Put(@, time_range.name, <<LocSeconds(df, target_idx[1])>>)]
                 ELSE stored
        ELSE st

\* figure_indoorheating.py, one iteration of the for loop, lines 118-153
indoorheating_LoopBody(st, time_range, start_offset, apparatus_bottom_col) ==
    LET start_time == time_range.start - start_offset
        end_time   == time_range.end
        source_data == st.source_data
        mask       == {k \in 1..Len(source_data) :
                          /\ source_data[k].Datetime >= start_time
                          /\ source_data[k].Datetime <= end_time}
        period_df  == SelectRows(source_data, mask)
    IN  IF period_df # <<>>
        THEN LET df == [k \in 1..Len(period_df) |->
                          [index    |-> period_df[k].index,
                           Datetime |-> period_df[k].Datetime,
                           bottom   |-> period_df[k].bottom,
                           seconds  |-> (period_df[k].Datetime - period_df[1].Datetime)
                                            - start_offset]]
                 stored == [st EXCEPT !.period_data = Put(@, time_range.name, df)]
                 target_idx ==
                     indoorheating_find_target_temp_index(df, apparatus_bottom_col,
                                                          TARGET_TEMP)
             IN  IF target_idx # None
                 THEN [stored EXCEPT !.reference_points =
                          Put(@, time_range.name, <<LocSeconds(df, target_idx[1])>>)]
                 ELSE [stored EXCEPT !.reference_points =
                          Put(@, time_range.name, None)]
        ELSE st

RECURSIVE indoorheating_RunLoop(_, _, _, _, _)
indoorheating_RunLoop(st, periods, k, start_offset, apparatus_bottom_col) ==
    IF k > Len(periods)
    THEN st
    ELSE indoorheating_RunLoop(
             indoorheating_LoopBody(st, periods[k], start_offset, apparatus_bottom_col),
             periods, k + 1, start_offset, apparatus_bottom_col)

\* figure_indoorheating.py, the second alignment, lines 155-174
indoorheating_Align(st) ==
    IF \A n \in DOMAIN st.reference_points : st.reference_points[n] # None
    THEN IF DOMAIN st.reference_points = {}
         THEN [st EXCEPT !.error = <<"ZeroDivisionError", "division by zero">>]
         ELSE [st EXCEPT
                 !.avg_reference_time =
                    <<SetSum({<<n, st.reference_points[n][1]>> :
                                 n \in DOMAIN st.reference_points}),
                      Cardinality(DOMAIN st.reference_points)>>,
                 !.period_data =
                    [n \in DOMAIN st.period_data |->
                        [k \in 1..Len(st.period_data[n]) |->
                            [st.period_data[n][k] EXCEPT
                                !.seconds = @ - (st.reference_points[n][1] - 0)]]]]
    ELSE st

\* figure_indoorheating.py, lines 113-174
indoorheating_inline(periods, source_data, start_offset, apparatus_bottom_col) ==
    indoorheating_Align(
        indoorheating_RunLoop([period_data |-> EmptyMap, reference_points |-> EmptyMap,
                               avg_reference_time |-> None, error |-> None,
                               source_data |-> source_data],
                              periods, 1, start_offset, apparatus_bottom_col))

\* figure_indoorheating_65c.py, one iteration of the for loop, lines 89-112
heating65c_LoopBody(st, time_range, start_offset) ==
    LET start_time == time_range.start - start_offset
        end_time   == time_range.end
        source_data == st.source_data
        mask       == {k \in 1..Len(source_data) :
                          /\ source_data[k].Datetime >= start_time
                          /\ source_data[k].Datetime <= end_time}
        period_df  == SelectRows(source_data, mask)
    IN  IF period_df # <<>>
        THEN [st EXCEPT !.period_data =
                 Put(@, time_range.name,
                     [k \in 1..Len(period_df) |->
                         [index    |-> period_df[k].index,
                          Datetime |-> period_df[k].Datetime,
                          bottom   |-> period_df[k].bottom,
                          seconds  |-> (period_df[k].Datetime - period_df[1].Datetime)
                                           - start_offset]])]
        ELSE st

RECURSIVE heating65c_RunLoop(_, _, _, _)
heating65c_RunLoop(st, periods, k, start_offset) ==
    IF k > Len(periods)
    THEN st
    ELSE heating65c_RunLoop(heating65c_LoopBody(st, periods[k], start_offset),
                            periods, k + 1, start_offset)

\* figure_indoorheating_65c.py, lines 85-112
heating65c_inline(periods, source_data, start_offset) ==
    heating65c_RunLoop([period_data |-> EmptyMap, reference_points |-> EmptyMap,
                        avg_reference_time |-> None, error |-> None,
                        source_data |-> source_data],
                       periods, 1, start_offset)

\* the arguments with which filter_time_periods does what the script does
InlineArguments(start_offset, align_to_temp) ==
    [start_offset |-> start_offset, align_to_temp |-> align_to_temp,
     target_temp |-> IF align_to_temp THEN <<TARGET_TEMP>> ELSE None,
     apparatus_bottom_col |-> IF align_to_temp THEN <<"bottom">> ELSE None]

\* what a script leaves behind when its extraction code has run
InlineDone(st, args) ==
    /\ call' = <<args>>
    /\ data' = st.source_data
    /\ pc' = IF st.error = None THEN "returned" ELSE "raised"
    /\ period_data' = IF st.error = None THEN st.period_data ELSE EmptyMap
    /\ reference_points' = st.reference_points
    /\ avg_reference_time' = st.avg_reference_time
    /\ error' = st.error
    /\ UNCHANGED <<time_periods, shown, df_filtered, result, shorter>>
    /\ UNCHANGED figures

\* figure_indoorheating.py runs its extraction and alignment
RunIndoorheating(start_offset) ==
    /\ pc = "start"
    /\ InlineDone(indoorheating_inline(time_periods, data, start_offset, "bottom"),
                  InlineArguments(start_offset, TRUE))

\* figure_indoorheating_65c.py runs its extraction
RunHeating65c(start_offset) ==
    /\ pc = "start"
    /\ InlineDone(heating65c_inline(time_periods, data, start_offset),
                  InlineArguments(start_offset, FALSE))

NextInline ==
    \/ \E start_offset \in StartOffsets : RunIndoorheating(start_offset)
    \/ \E start_offset \in StartOffsets : RunHeating65c(start_offset)

SpecInline == Init /\ [][NextInline]_vars

----------------------------------------------------------------------------
(* figure_resyncexp.py: the glass regions and adjustment markers built     *)
(* from adjusts.csv.  Times are minutes since midnight of the experiment   *)
(* date; the text of a 'time' cell is the sequence of its ':'-separated    *)
(* parts.                                                                  *)

\* the alignment scripts have not run
AlignerIdle ==
    /\ data = <<>>
    /\ time_periods = <<>>
    /\ call = None
    /\ pc = "start"
    /\ period_data = EmptyMap
    /\ reference_points = EmptyMap
    /\ avg_reference_time = None
    /\ error = None
    /\ shown = None
    /\ df_filtered = <<>>
    /\ result = None
    /\ shorter = None

aligner == <<data, time_periods, call, pc, period_data, reference_points,
             avg_reference_time, error, shown, df_filtered, result, shorter>>

MaxAdjusts == 3

\* the time strings "1", "8:30", "9:30" and "10:00"
AdjustTimes == {<<1>>, <<8, 30>>, <<9, 30>>, <<10, 0>>}

AdjustmentTypes == {"boro", "caf2", "adjust"}

\* the last data timestamp: 10:15, 13:30 or 21:00
ExperimentEnds == {615, 810, 1260}

\* pd.read_csv, line 140: a 'time' column whose cells are all bare integers is read
\* as int64 and row['time'] is then an integer; with a ':' in any cell the column
\* holds the cells as strings
time_dtype(adjusts) ==
    IF adjusts # <<>> /\ \A k \in 1..Len(adjusts) : Len(adjusts[k].time) = 1
    THEN "int64"
    ELSE "object"

\* lines 157-167: hour and minute of a time string
HourMinute(time_str) ==
    IF Len(time_str) = 1
    THEN <<time_str[1], 0>>
    ELSE <<time_str[1], time_str[2]>>

\* lines 157-174: hours before 9 are taken as afternoon hours
AdjustTimestamp(time_str) ==
    LET hour   == HourMinute(time_str)[1]
        minute == HourMinute(time_str)[2]
    IN  (IF hour < 9 THEN hour + 12 ELSE hour) * 60 + minute

\* the mutant opens the new region without closing the one before
ProcessAdjustRow_no_close(r, adjust_row) ==
    LET timestamp       == AdjustTimestamp(adjust_row.time)
        adjustment_type == adjust_row.adjustment_type
        glass == IF adjustment_type \in {"boro", "caf2"}
                 THEN [r EXCEPT !.current_glass = <<adjustment_type>>,
                                !.region_start = <<timestamp>>]
                 ELSE r
    IN  IF r.time_dtype = "int64"
        THEN [r EXCEPT !.pc = "raised",
                       !.error = <<"TypeError", "argument of type 'int' is not iterable">>]
        ELSE IF adjustment_type = "adjust"
        THEN [glass EXCEPT !.adjustments = Append(@, timestamp), !.row = @ + 1]
        ELSE [glass EXCEPT !.row = @ + 1]

\* lines 153-192: one row of adjusts.csv
ProcessAdjustRow(r, adjust_row) ==
    LET timestamp       == AdjustTimestamp(adjust_row.time)
        adjustment_type == adjust_row.adjustment_type
        closed == IF adjustment_type \in {"boro", "caf2"} /\ r.current_glass # None
                  THEN [r EXCEPT !.glass_regions =
                           Append(@, [type  |-> r.current_glass[1],
                                      start |-> r.region_start[1],
                                      end   |-> timestamp])]
                  ELSE r
        glass == IF adjustment_type \in {"boro", "caf2"}
                 THEN [closed EXCEPT !.current_glass = <<adjustment_type>>,
                                     !.region_start = <<timestamp>>]
                 ELSE closed
    IN  IF r.time_dtype = "int64"
        THEN \* line 158, ':' in time_str with an integer
             [r EXCEPT !.pc = "raised",
                       !.error = <<"TypeError", "argument of type 'int' is not iterable">>]
        ELSE IF adjustment_type = "adjust"
        THEN [glass EXCEPT !.adjustments = Append(@, timestamp), !.row = @ + 1]
        ELSE [glass EXCEPT !.row = @ + 1]

AdjustRows == [time : AdjustTimes, adjustment_type : AdjustmentTypes]

InitResync ==
    /\ AlignerIdle
    /\ sep13exp = None
    /\ figure1 = None
    /\ tick = None
    /\ figure4 = None
    /\ \E adjusts \in UNION {[1..n -> AdjustRows] : n \in 0..MaxAdjusts},
          experiment_end \in ExperimentEnds :
          resyncexp = [adjusts |-> adjusts, time_dtype |-> time_dtype(adjusts),
                       experiment_end |-> experiment_end,
                       row |-> 0, pc |-> "rows", error |-> None,
                       glass_regions |-> <<>>, adjustments |-> <<>>,
                       current_glass |-> None, region_start |-> None,
                       shaded |-> <<>>]

\* the for loop of line 153 takes the next row, or stops at the row that raises
ResyncRow ==
    /\ resyncexp # None
    /\ resyncexp.pc = "rows"
    /\ resyncexp.row < Len(resyncexp.adjusts)
    /\ resyncexp' = ProcessAdjustRow(resyncexp, resyncexp.adjusts[resyncexp.row + 1])
    /\ UNCHANGED <<aligner, sep13exp, figure1, tick, figure4>>

\* lines 194-200: after the last row the open region ends with the data
ResyncFinalRegion ==
    /\ resyncexp # None
    /\ resyncexp.pc = "rows"
    /\ resyncexp.row = Len(resyncexp.adjusts)
    /\ resyncexp' =
          IF resyncexp.current_glass # None /\ resyncexp.region_start # None
          THEN [resyncexp EXCEPT
                   !.glass_regions =
                       Append(@, [type  |-> resyncexp.current_glass[1],
                                  start |-> resyncexp.region_start[1],
                                  end   |-> resyncexp.experiment_end]),
                   !.pc = "regions"]
          ELSE [resyncexp EXCEPT !.pc = "regions"]
    /\ UNCHANGED <<aligner, sep13exp, figure1, tick, figure4>>

\* lines 202-222: every region is shaded with ax.axvspan(start, end)
ResyncShade ==
    /\ resyncexp # None
    /\ resyncexp.pc = "regions"
    /\ resyncexp' =
          [resyncexp EXCEPT
              !.shaded = [k \in 1..Len(resyncexp.glass_regions) |->
                             <<resyncexp.glass_regions[k].start,
                               resyncexp.glass_regions[k].end>>],
              !.pc = "done"]
    /\ UNCHANGED <<aligner, sep13exp, figure1, tick, figure4>>

NextResync == ResyncRow \/ ResyncFinalRegion \/ ResyncShade

SpecResync == InitResync /\ [][NextResync]_vars

----------------------------------------------------------------------------
(* figure-sep13exp.py: the configuration annotations and what is drawn of  *)
(* them.  Times are counted in half seconds since midnight of the          *)
(* experiment date (12:00:00 is 86400, 14:00:01 is 100802), so that the    *)
(* midpoint of two whole-second timestamps is exact; a time string "HH:MM" *)
(* is the pair <<HH, MM>>.                                                 *)

MaxAnnotations == 3

\* the time strings "12:00", "14:00", "17:00" and "18:00"
AnnotationTimes == {<<12, 0>>, <<14, 0>>, <<17, 0>>, <<18, 0>>}

Geometries == {"BBBB", "CCCC"}

\* the last data timestamp: 12:00:01, 13:00:31, 14:00:01, 17:30:00 or 19:00:00
Sep13ExperimentEnds == {86402, 93662, 100802, 126000, 136800}

\* pd.to_datetime(f"{experiment_date} {time_str}"), in half seconds
ClockTime(time_str) == (time_str[1] * 60 + time_str[2]) * 120

\* lines 71-94
anno_list_of(annotations, experiment_end) ==
    [i \in 1..Len(annotations) |->
        [config     |-> annotations[i].geometry,
         start_time |-> ClockTime(annotations[i].time),
         end_time   |-> IF i < Len(annotations)
                        THEN ClockTime(annotations[i + 1].time)
                        ELSE experiment_end]]

\* lines 211-216: the end of the last BBBB section, None when there is none
bbbb_end_time(anno_list) ==
    LET bbbb == {i \in 1..Len(anno_list) : anno_list[i].config = "BBBB"}
    IN  IF bbbb # {} THEN <<anno_list[SetMax(bbbb)].end_time>> ELSE None

\* lines 218-222
plot_end_time(anno_list) ==
    IF bbbb_end_time(anno_list) # None
    THEN bbbb_end_time(anno_list)[1]
    ELSE ClockTime(<<17, 15>>)

\* the mutant shades every span to its own end
DrawAnnotation_unclipped(r, i) ==
    LET anno       == r.anno_list[i]
        start_time == anno.start_time
        end_time   == anno.end_time
        mid_point  == start_time + (end_time - start_time) \div 2  \* a whole number of half seconds
    IN  IF start_time > r.plot_end_time[1]
        THEN r
        ELSE LET span == [r EXCEPT !.spans = Append(@, [of |-> i, start |-> start_time,
                                                         end |-> end_time])]
                 line == IF i > 1
                         THEN [span EXCEPT !.lines = Append(@, [of |-> i, at |-> start_time])]
                         ELSE span
             IN  IF mid_point > r.plot_end_time[1]
                 THEN line
                 ELSE [line EXCEPT !.labels = Append(@, [of |-> i, at |-> mid_point,
                                                         text |-> anno.config])]

\* lines 225-255: one annotation of the drawing loop
DrawAnnotation(r, i) ==
    LET anno       == r.anno_list[i]
        start_time == anno.start_time
        end_time   == anno.end_time
        mid_point  == start_time + (end_time - start_time) \div 2  \* a whole number of half seconds
    IN  IF start_time > r.plot_end_time[1]
        THEN r
        ELSE LET span == [r EXCEPT !.spans =
                             Append(@, [of |-> i, start |-> start_time,
                                        end |-> IF end_time <= r.plot_end_time[1]
                                                THEN end_time
                                                ELSE r.plot_end_time[1]])]
                 line == IF i > 1
                         THEN [span EXCEPT !.lines = Append(@, [of |-> i, at |-> start_time])]
                         ELSE span
             IN  IF mid_point > r.plot_end_time[1]
                 THEN line
                 ELSE [line EXCEPT !.labels = Append(@, [of |-> i, at |-> mid_point,
                                                         text |-> anno.config])]

AnnotationRows == [geometry : Geometries, time : AnnotationTimes]

InitSep13 ==
    /\ AlignerIdle
    /\ resyncexp = None
    /\ figure1 = None
    /\ tick = None
    /\ figure4 = None
    /\ \E annotations \in UNION {[1..n -> AnnotationRows] : n \in 0..MaxAnnotations},
          experiment_end \in Sep13ExperimentEnds :
          sep13exp = [annotations |-> annotations, experiment_end |-> experiment_end,
                      pc |-> "annotations", anno_list |-> <<>>, plot_end_time |-> None,
                      i |-> 0, spans |-> <<>>, lines |-> <<>>, labels |-> <<>>]

\* lines 71-94: the annotations get their start and end times
Sep13AnnoList ==
    /\ sep13exp # None
    /\ sep13exp.pc = "annotations"
    /\ sep13exp' = [sep13exp EXCEPT
                       !.anno_list = anno_list_of(sep13exp.annotations,
                                                  sep13exp.experiment_end),
                       !.pc = "plot_end"]
    /\ UNCHANGED <<aligner, resyncexp, figure1, tick, figure4>>

\* lines 211-222: the end of the plot is chosen
Sep13PlotEnd ==
    /\ sep13exp # None
    /\ sep13exp.pc = "plot_end"
    /\ sep13exp' = [sep13exp EXCEPT
                       !.plot_end_time = <<plot_end_time(sep13exp.anno_list)>>,
                       !.pc = "draw"]
    /\ UNCHANGED <<aligner, resyncexp, figure1, tick, figure4>>

\* lines 225-255: the drawing loop takes the next annotation
Sep13Draw ==
    /\ sep13exp # None
    /\ sep13exp.pc = "draw"
    /\ sep13exp.i < Len(sep13exp.anno_list)
    /\ sep13exp' = [DrawAnnotation(sep13exp, sep13exp.i + 1) EXCEPT !.i = @ + 1]
    /\ UNCHANGED <<aligner, resyncexp, figure1, tick, figure4>>

NextSep13 == Sep13AnnoList \/ Sep13PlotEnd \/ Sep13Draw

SpecSep13 == InitSep13 /\ [][NextSep13]_vars

----------------------------------------------------------------------------
(* figure1.py: the configuration regions of the script's annotation list.  *)
(* Timestamps are seconds since midnight of the experiment date.           *)

\* the annotations of lines 134-159; "12:21" is <<12, 21>>
Figure1Annotations ==
    <<[config |-> "CCCC", start_time |-> <<12, 21>>, end_time |-> <<14, 30>>],
      [config |-> "BBBB", start_time |-> <<14, 30>>, end_time |-> <<15, 34>>],
      [config |-> "CCCC", start_time |-> <<15, 34>>, end_time |-> <<16, 25>>],
      [config |-> "BBBB", start_time |-> <<16, 25>>, end_time |-> <<17, 50>>]>>

\* first and last data timestamps: 12:00:00, 12:21:30, 14:29:45, 14:30:30,
\* 15:33:59, 15:34:00, 16:25:10, 17:50:00, 17:50:20 and 18:10:00
DataTimes == {43200, 44490, 52185, 52230, 56039, 56040, 59110, 64200, 64220, 65400}

\* lines 123-125
time_str_to_minutes(time_str) == time_str[1] * 60 + time_str[2]

\* lines 127-130; the start time enters with its hour and minute only
minutes_from_experiment_start(time_str, experiment_start) ==
    LET experiment_start_time == <<experiment_start \div 3600,
                                   (experiment_start % 3600) \div 60>>
    IN  time_str_to_minutes(time_str) - time_str_to_minutes(experiment_start_time)

\* the mutant caps the end of a region and not its start
ShadeRegion_start_not_capped(r, i) ==
    LET anno       == r.annotations[i]
        start_time == r.experiment_start + 60 * anno.start_min
        end_time   == r.experiment_start + 60 * anno.end_min
    IN  IF start_time <= r.experiment_end /\ end_time >= r.experiment_start
        THEN [r EXCEPT !.spans =
                 Append(@, [of    |-> i,
                            start |-> start_time,
                            end   |-> IF end_time > r.experiment_end
                                      THEN r.experiment_end ELSE end_time])]
        ELSE r

\* lines 171-194: one annotation of the shading loop
ShadeRegion(r, i) ==
    LET anno       == r.annotations[i]
        start_time == r.experiment_start + 60 * anno.start_min
        end_time   == r.experiment_start + 60 * anno.end_min
    IN  IF start_time <= r.experiment_end /\ end_time >= r.experiment_start
        THEN [r EXCEPT !.spans =
                 Append(@, [of    |-> i,
                            start |-> IF start_time < r.experiment_start
                                      THEN r.experiment_start ELSE start_time,
                            end   |-> IF end_time > r.experiment_end
                                      THEN r.experiment_end ELSE end_time])]
        ELSE r

InitFigure1 ==
    /\ AlignerIdle
    /\ resyncexp = None
    /\ sep13exp = None
    /\ tick = None
    /\ figure4 = None
    /\ \E experiment_start \in DataTimes, experiment_end \in DataTimes :
          /\ experiment_start <= experiment_end
          /\ figure1 = [experiment_start |-> experiment_start,
                        experiment_end |-> experiment_end,
                        pc |-> "convert", annotations |-> <<>>, i |-> 0, spans |-> <<>>]

\* lines 161-168: every annotation gets its minutes from the experiment start
Figure1Convert ==
    /\ figure1 # None
    /\ figure1.pc = "convert"
    /\ figure1' =
          [figure1 EXCEPT
              !.annotations =
                  [i \in 1..Len(Figure1Annotations) |->
                      [config    |-> Figure1Annotations[i].config,
                       start_min |-> minutes_from_experiment_start(
                                         Figure1Annotations[i].start_time,
                                         figure1.experiment_start),
                       end_min   |-> minutes_from_experiment_start(
                                         Figure1Annotations[i].end_time,
                                         figure1.experiment_start)]],
              !.pc = "shade"]
    /\ UNCHANGED <<aligner, resyncexp, sep13exp, tick, figure4>>

\* lines 171-194: the shading loop takes the next annotation
Figure1Shade ==
    /\ figure1 # None
    /\ figure1.pc = "shade"
    /\ figure1.i < Len(figure1.annotations)
    /\ figure1' = [ShadeRegion(figure1, figure1.i + 1) EXCEPT !.i = @ + 1]
    /\ UNCHANGED <<aligner, resyncexp, sep13exp, tick, figure4>>

NextFigure1 == Figure1Convert \/ Figure1Shade

SpecFigure1 == InitFigure1 /\ [][NextFigure1]_vars

----------------------------------------------------------------------------
(* utils.format_time, the tick formatter of the indoor-heating figures.  A *)
(* string is the sequence of its characters.                               *)

MaxTickSeconds == 6100

DigitChars == <<"0", "1", "2", "3", "4", "5", "6", "7", "8", "9">>

\* str(n) for n >= 0
RECURSIVE Decimal(_)
Decimal(n) ==
    IF n < 10
    THEN <<DigitChars[n + 1]>>
    ELSE Decimal(n \div 10) \o <<DigitChars[(n % 10) + 1]>>

\* f"{n:02d}" for n >= 0: zeros are put in front up to a width of two
Format02d(n) ==
    IF Len(Decimal(n)) < 2 THEN <<"0">> \o Decimal(n) ELSE Decimal(n)

\* the mutant takes the remainder of the signed value
format_time_signed_remainder(seconds) ==
    LET is_negative == seconds < 0
        seconds_abs == IF seconds < 0 THEN -seconds ELSE seconds
        minutes     == seconds_abs \div 60
        secs        == seconds % 60
    IN  IF is_negative
        THEN <<"-">> \o Format02d(minutes) \o <<":">> \o Format02d(secs)
        ELSE Format02d(minutes) \o <<":">> \o Format02d(secs)

\* lines 35-45
format_time(seconds) ==
    LET is_negative == seconds < 0
        seconds_abs == IF seconds < 0 THEN -seconds ELSE seconds
        minutes     == seconds_abs \div 60
        secs        == seconds_abs % 60
    IN  IF is_negative
        THEN <<"-">> \o Format02d(minutes) \o <<":">> \o Format02d(secs)
        ELSE Format02d(minutes) \o <<":">> \o Format02d(secs)

InitFormatTime ==
    /\ AlignerIdle
    /\ resyncexp = None
    /\ sep13exp = None
    /\ figure1 = None
    /\ figure4 = None
    /\ \E seconds \in (-MaxTickSeconds)..MaxTickSeconds :
          tick = [seconds |-> seconds, label |-> None]

\* the axis asks for the label of a tick
FormatTick ==
    /\ tick # None
    /\ tick.label = None
    /\ tick' = [tick EXCEPT !.label = <<format_time(tick.seconds)>>]
    /\ UNCHANGED <<aligner, resyncexp, sep13exp, figure1, figure4>>

NextFormatTime == FormatTick

SpecFormatTime == InitFormatTime /\ [][NextFormatTime]_vars

----------------------------------------------------------------------------
(* figure4.load_data and generate_csv_data.generate_all_data.  The state   *)
(* of the file system is part of the input.  data_dir is "absent" when the *)
(* data directory does not exist and can be created, "blocked" when it     *)
(* does not exist and cannot be created, "writable" when it exists and new *)
(* files can be created in it, "read_only" when it exists and they cannot. *)
(* Each of the three paths holds None (nothing there) or one entry with    *)
(* its kind ("generated": a file with the output of the generator,         *)
(* "other": a file with other CSV data, "empty": a file of zero bytes,     *)
(* "directory": a directory of that name) and whether the process may      *)
(* open it for writing.  Failures of the operating system that these       *)
(* states do not determine (a full disk, a path changed by another         *)
(* process between two calls) are not part of the model.                   *)

bb_path == "blackbody_spectrum.csv"

boro_path == "borosilicate_transmission.csv"

caf2_path == "caf2_transmission.csv"

DataFiles == {bb_path, boro_path, caf2_path}

\* os.path.join(script_dir, 'data')
data_dir == "data"

\* os.path.exists
exists(files, path) == files[path] # None

FileKinds == {"generated", "other", "empty"}

FileStates ==
    {None}
    \cup {<<[kind |-> k, writable |-> w]>> : k \in FileKinds, w \in BOOLEAN}
    \cup {<<[kind |-> "directory", writable |-> FALSE]>>}

DirStates == {"absent", "blocked", "writable", "read_only"}

\* os.makedirs(data_dir, exist_ok=True)
makedirs(r) ==
    IF r.data_dir = "absent" THEN [r EXCEPT !.data_dir = "writable"]
    ELSE IF r.data_dir = "blocked"
    THEN [r EXCEPT !.pc = "raised", !.error = <<"PermissionError", data_dir>>]
    ELSE r

\* df.to_csv(csv_path, index=False): the error of opening the path for writing,
\* None when the file can be written
to_csv_error(r, path) ==
    IF r.files[path] = None
    THEN IF r.data_dir = "writable" THEN None ELSE <<"PermissionError", path>>
    ELSE IF r.files[path][1].kind = "directory" THEN <<"IsADirectoryError", path>>
    ELSE IF ~r.files[path][1].writable THEN <<"PermissionError", path>>
    ELSE None

\* the mutant keeps a file that is already there
save_csv_keep_existing(r, path, next) ==
    LET m == makedirs(r)
    IN  IF m.pc = "raised" THEN m
        ELSE IF to_csv_error(m, path) # None
        THEN [m EXCEPT !.pc = "raised", !.error = to_csv_error(m, path)]
        ELSE IF exists(m.files, path)
        THEN [m EXCEPT !.pc = next]
        ELSE [m EXCEPT !.files[path] = <<[kind |-> "generated", writable |-> TRUE]>>,
                       !.written = Append(@, path),
                       !.pc = next]

\* save_blackbody_csv, save_borosilicate_csv, save_caf2_csv: os.makedirs, then
\* df.to_csv(csv_path), which replaces the content of a file that is there
save_csv(r, path, next) ==
    LET m == makedirs(r)
    IN  IF m.pc = "raised" THEN m
        ELSE IF to_csv_error(m, path) # None
        THEN [m EXCEPT !.pc = "raised", !.error = to_csv_error(m, path)]
        ELSE [m EXCEPT !.files[path] = <<[kind |-> "generated", writable |-> TRUE]>>,
                       !.written = Append(@, path),
                       !.pc = next]

\* pd.read_csv(path): the error it raises, None when the file parses.  The
\* OSErrors carry the path as their filename; EmptyDataError carries only its
\* message
read_csv_error(files, path) ==
    IF files[path] = None THEN <<"FileNotFoundError", path>>
    ELSE IF files[path][1].kind = "empty"
    THEN <<"EmptyDataError", "No columns to parse from file">>
    ELSE IF files[path][1].kind = "directory" THEN <<"IsADirectoryError", path>>
    ELSE None

SomeFileMissing(files) ==
    \/ ~exists(files, bb_path)
    \/ ~exists(files, boro_path)
    \/ ~exists(files, caf2_path)

\* without the data directory none of the three paths holds anything
InitFigure4 ==
    /\ AlignerIdle
    /\ resyncexp = None
    /\ sep13exp = None
    /\ figure1 = None
    /\ tick = None
    /\ \E d \in DirStates, files \in [DataFiles -> FileStates] :
          /\ d \in {"absent", "blocked"} => \A f \in DataFiles : files[f] = None
          /\ figure4 = [data_dir |-> d, files |-> files,
                        before |-> [data_dir |-> d, files |-> files],
                        pc |-> "load_data", generate |-> FALSE, written |-> <<>>,
                        read |-> <<>>, loaded |-> None, error |-> None]

\* load_data, lines 40-44: the existence check
Figure4Check ==
    /\ figure4 # None
    /\ figure4.pc = "load_data"
    /\ figure4' = [figure4 EXCEPT
                      !.generate = SomeFileMissing(figure4.files),
                      !.pc = IF SomeFileMissing(figure4.files)
                             THEN "generate_all_data" ELSE "read_csv"]
    /\ UNCHANGED <<aligner, resyncexp, sep13exp, figure1, tick>>

\* generate_all_data, line 103
Figure4Makedirs ==
    /\ figure4 # None
    /\ figure4.pc = "generate_all_data"
    /\ figure4' = IF makedirs(figure4).pc = "raised"
                  THEN makedirs(figure4)
                  ELSE [makedirs(figure4) EXCEPT !.pc = "save_blackbody_csv"]
    /\ UNCHANGED <<aligner, resyncexp, sep13exp, figure1, tick>>

\* generate_all_data, line 106
Figure4SaveBlackbody ==
    /\ figure4 # None
    /\ figure4.pc = "save_blackbody_csv"
    /\ figure4' = save_csv(figure4, bb_path, "save_borosilicate_csv")
    /\ UNCHANGED <<aligner, resyncexp, sep13exp, figure1, tick>>

\* generate_all_data, line 107
Figure4SaveBorosilicate ==
    /\ figure4 # None
    /\ figure4.pc = "save_borosilicate_csv"
    /\ figure4' = save_csv(figure4, boro_path, "save_caf2_csv")
    /\ UNCHANGED <<aligner, resyncexp, sep13exp, figure1, tick>>

\* generate_all_data, line 108
Figure4SaveCaf2 ==
    /\ figure4 # None
    /\ figure4.pc = "save_caf2_csv"
    /\ figure4' = save_csv(figure4, caf2_path, "read_csv")
    /\ UNCHANGED <<aligner, resyncexp, sep13exp, figure1, tick>>

\* load_data, lines 46-51: the three files are read in turn; the first read that
\* fails ends load_data
Figure4Read ==
    /\ figure4 # None
    /\ figure4.pc = "read_csv"
    /\ figure4' =
          IF read_csv_error(figure4.files, bb_path) # None
          THEN [figure4 EXCEPT !.pc = "raised",
                               !.read = <<bb_path>>,
                               !.error = read_csv_error(figure4.files, bb_path)]
          ELSE IF read_csv_error(figure4.files, boro_path) # None
          THEN [figure4 EXCEPT !.pc = "raised",
                               !.read = <<bb_path, boro_path>>,
                               !.error = read_csv_error(figure4.files, boro_path)]
          ELSE IF read_csv_error(figure4.files, caf2_path) # None
          THEN [figure4 EXCEPT !.pc = "raised",
                               !.read = <<bb_path, boro_path, caf2_path>>,
                               !.error = read_csv_error(figure4.files, caf2_path)]
          ELSE [figure4 EXCEPT
                   !.read = <<bb_path, boro_path, caf2_path>>,
                   !.loaded = <<(<<figure4.files[bb_path][1].kind,
                                   figure4.files[boro_path][1].kind,
                                   figure4.files[caf2_path][1].kind>>)>>,
                   !.pc = "returned"]
    /\ UNCHANGED <<aligner, resyncexp, sep13exp, figure1, tick>>

NextFigure4 ==
    \/ Figure4Check
    \/ Figure4Makedirs
    \/ Figure4SaveBlackbody
    \/ Figure4SaveBorosilicate
    \/ Figure4SaveCaf2
    \/ Figure4Read

SpecFigure4 == InitFigure4 /\ [][NextFigure4]_vars

----------------------------------------------------------------------------
(* Vocabulary of the properties, stated from the inputs of the call         *)

Args == call[1]

InputNames == {time_periods[k].name : k \in DOMAIN time_periods}

Period(n) == CHOOSE p \in {time_periods[k] : k \in DOMAIN time_periods} : p.name = n

\* positions of the source rows inside [start - preroll, end]
InWindow(n) ==
    LET p  == Period(n)
        lo == p.start - Args.start_offset
    IN  {k \in 1..Len(data) : lo <= data[k].Datetime /\ data[k].Datetime <= p.end}

NonEmptyNames == {n \in InputNames : InWindow(n) # {}}

Ascending(S) ==
    [j \in 1..Cardinality(S) |-> CHOOSE k \in S : Cardinality({m \in S : m < k}) = j - 1]

\* the retained samples of a period in file order, with their Step-3 relative time
Retained(n) ==
    LET pos == Ascending(InWindow(n))
    IN  [j \in 1..Len(pos) |->
            [index    |-> pos[j] - 1,
             Datetime |-> data[pos[j]].Datetime,
             bottom   |-> data[pos[j]].bottom,
             rel      |-> (data[pos[j]].Datetime - data[pos[1]].Datetime)
                              - Args.start_offset]]

AlignRequested ==
    /\ Args.align_to_temp
    /\ Args.target_temp # None
    /\ Args.apparatus_bottom_col = <<"bottom">>

Crosses(n) == \E k \in InWindow(n) : data[k].bottom <= Args.target_temp[1]

\* position, among the retained samples, of the first one at or below the target
FirstCrossing(n) ==
    LET W     == InWindow(n)
        first == SetMin({k \in W : data[k].bottom <= Args.target_temp[1]})
    IN  Cardinality({k \in W : k <= first})

AtStep3(n) ==
    LET R == Retained(n)
    IN  /\ Len(period_data[n]) = Len(R)
        /\ \A k \in 1..Len(period_data[n]) : period_data[n][k].seconds = R[k].rel

\* the call returned and no shift was applied: alignment not requested, or aborted
Unshifted ==
    /\ pc = "returned"
    /\ \/ ~Args.align_to_temp
       \/ \E n \in DOMAIN reference_points : reference_points[n] = None

\* the call returned and every period was shifted
Shifted ==
    /\ pc = "returned"
    /\ Args.align_to_temp
    /\ \A n \in DOMAIN reference_points : reference_points[n] # None

----------------------------------------------------------------------------
(* C1: all-or-nothing alignment.  When alignment is requested and some     *)
(* period with a non-empty selection has no retained sample at or below    *)
(* the target, the call returns every period at its Step-3 relative        *)
(* seconds: the mapping equals the one returned without alignment.         *)
C1_AllOrNothing ==
    (/\ pc # "start"
     /\ AlignRequested
     /\ \E n \in NonEmptyNames : ~Crosses(n))
    => /\ pc = "returned"
       /\ \A n \in DOMAIN period_data : AtStep3(n)
       /\ period_data =
            filter_time_periods(time_periods, data,
                                [Args EXCEPT !.align_to_temp = FALSE]).period_data

\* one period never reaches the target, another one has a reference point away from 0
C1_Witness ==
    /\ pc = "returned"
    /\ AlignRequested
    /\ \E n \in NonEmptyNames : ~Crosses(n)
    /\ \E m \in DOMAIN reference_points :
          reference_points[m] # None /\ reference_points[m][1] # 0

(* C2: when alignment is requested and every returned period has a         *)
(* crossing, every period is shifted by its own reference point, so the    *)
(* first retained sample at or below the target sits at relative second 0. *)
C2_CrossingAtZero ==
    (/\ pc = "returned"
     /\ AlignRequested
     /\ \A n \in DOMAIN period_data : Crosses(n))
    => \A n \in DOMAIN period_data :
          LET R == Retained(n)
              c == FirstCrossing(n)
          IN  /\ period_data[n][c].seconds = 0
              /\ \A k \in 1..Len(period_data[n]) :
                    period_data[n][k].seconds = R[k].rel - R[c].rel

\* two aligned periods whose reference points differ
C2_Witness ==
    /\ pc = "returned"
    /\ AlignRequested
    /\ \A n \in DOMAIN period_data : Crosses(n)
    /\ \E n, m \in DOMAIN period_data :
          /\ reference_points[n][1] # reference_points[m][1]
          /\ period_data[n][FirstCrossing(n)].seconds = 0
          /\ period_data[m][FirstCrossing(m)].seconds = 0

(* C3: the reference point of a period is the Step-3 relative time of the  *)
(* earliest retained sample (pre-roll included) at or below the target;    *)
(* every retained sample before it is strictly above the target, and no    *)
(* reference point is recorded when no retained sample is at or below it.  *)
C3_FirstCrossingIsReference ==
    (pc # "start" /\ AlignRequested)
    => \A n \in DOMAIN reference_points :
          LET R == Retained(n)
          IN  IF reference_points[n] # None
              THEN \E k \in 1..Len(R) :
                      /\ R[k].bottom <= Args.target_temp[1]
                      /\ \A j \in 1..(k - 1) : R[j].bottom > Args.target_temp[1]
                      /\ reference_points[n][1] = R[k].rel
              ELSE \A k \in 1..Len(R) : R[k].bottom > Args.target_temp[1]

\* the crossing is a pre-roll sample that is not the first one, later samples
\* are at or below the target again and one of them rises above it
C3_Witness ==
    /\ pc = "returned"
    /\ AlignRequested
    /\ \E n \in DOMAIN reference_points :
          /\ reference_points[n] # None
          /\ FirstCrossing(n) > 1
          /\ Retained(n)[FirstCrossing(n)].Datetime < Period(n).start
          /\ \E j \in (FirstCrossing(n) + 1)..Len(Retained(n)) :
                Retained(n)[j].bottom > Args.target_temp[1]

(* C4: without an alignment shift every retained sample has                *)
(* relative_seconds = (timestamp - first retained timestamp) - preroll,    *)
(* so the first retained sample sits at exactly -preroll.                  *)
C4_RelativeSecondsFromFirstRetained ==
    Unshifted
    => \A n \in DOMAIN period_data :
          LET first == data[SetMin(InWindow(n))].Datetime
          IN  /\ period_data[n][1].seconds = -Args.start_offset
              /\ period_data[n][1].Datetime = first
              /\ \A k \in 1..Len(period_data[n]) :
                    period_data[n][k].seconds =
                        (period_data[n][k].Datetime - first) - Args.start_offset

\* default pre-roll, a period with samples at different times
C4_Witness ==
    /\ Unshifted
    /\ Args.start_offset = DefaultStartOffset
    /\ \E n \in DOMAIN period_data :
          /\ Len(period_data[n]) >= 2
          /\ period_data[n][1].seconds = -DefaultStartOffset
          /\ period_data[n][Len(period_data[n])].seconds > -DefaultStartOffset

(* C5: the retained samples of a period are exactly the source samples     *)
(* with start - preroll <= t <= end, both bounds inclusive, each once, in  *)
(* file order and with their values.                                       *)
C5_SelectionIsClosedInterval ==
    pc = "returned"
    => \A n \in DOMAIN period_data :
          /\ {period_data[n][k].index + 1 : k \in 1..Len(period_data[n])} = InWindow(n)
          /\ Len(period_data[n]) = Cardinality(InWindow(n))
          /\ \A k \in 1..Len(period_data[n]) :
                /\ period_data[n][k].Datetime = data[period_data[n][k].index + 1].Datetime
                /\ period_data[n][k].bottom = data[period_data[n][k].index + 1].bottom
          /\ \A j, k \in 1..Len(period_data[n]) :
                j < k => period_data[n][j].index < period_data[n][k].index

\* samples at exactly start - preroll and at exactly end are kept, another is dropped
C5_Witness ==
    /\ pc = "returned"
    /\ \E n \in DOMAIN period_data :
          /\ \E k \in 1..Len(period_data[n]) :
                period_data[n][k].Datetime = Period(n).start - Args.start_offset
          /\ \E k \in 1..Len(period_data[n]) :
                period_data[n][k].Datetime = Period(n).end
          /\ Len(period_data[n]) < Len(data)

(* C6 as stated: without an alignment shift a retained sample has          *)
(* relative_seconds 0 exactly when its timestamp is the declared start,    *)
(* for every source table.                                                 *)
C6_ZeroAtDeclaredStart ==
    Unshifted
    => \A n \in DOMAIN period_data : \A k \in 1..Len(period_data[n]) :
          (period_data[n][k].seconds = 0) <=> (period_data[n][k].Datetime = Period(n).start)

(* C6 amended: without an alignment shift a retained sample has            *)
(* relative_seconds 0 exactly when its timestamp is the first retained     *)
(* timestamp plus the pre-roll; that is the declared start when the first  *)
(* retained sample is at exactly start - preroll.  The values of a period  *)
(* do not depend on the other periods.                                     *)
C6_ZeroAtFirstRetainedPlusPreroll ==
    Unshifted
    => \A n \in DOMAIN period_data :
          /\ LET first == data[SetMin(InWindow(n))].Datetime
             IN  \A k \in 1..Len(period_data[n]) :
                    /\ (period_data[n][k].seconds = 0)
                          <=> (period_data[n][k].Datetime = first + Args.start_offset)
                    /\ first = Period(n).start - Args.start_offset
                          => ((period_data[n][k].seconds = 0)
                                  <=> (period_data[n][k].Datetime = Period(n).start))
          /\ period_data[n] =
                filter_time_periods(<<Period(n)>>, data,
                                    [Args EXCEPT !.align_to_temp = FALSE]).period_data[n]

\* the first sample inside the window is later than start - preroll and a
\* sample after the declared start sits at relative second 0
C6_Witness ==
    /\ Unshifted
    /\ \E n \in DOMAIN period_data :
          /\ data[SetMin(InWindow(n))].Datetime > Period(n).start - Args.start_offset
          /\ \E k \in 1..Len(period_data[n]) :
                /\ period_data[n][k].seconds = 0
                /\ period_data[n][k].Datetime # Period(n).start

(* C7: a period whose selection window holds no sample is skipped and the  *)
(* others are still processed: the keys of the returned mapping are        *)
(* exactly the input periods with a non-empty selection, and no returned   *)
(* table is empty.                                                         *)
C7_KeysAreNonEmptyPeriods ==
    pc = "returned"
    => /\ DOMAIN period_data = NonEmptyNames
       /\ \A n \in DOMAIN period_data : period_data[n] # <<>>

\* the first period is skipped and the second one is returned
C7_Witness ==
    /\ pc = "returned"
    /\ Len(time_periods) = 2
    /\ InWindow(time_periods[1].name) = {}
    /\ DOMAIN period_data = {time_periods[2].name}

(* C8: an empty selection window never aborts the batch: for every input   *)
(* of periods the call returns normally, and when every selection is empty *)
(* it returns the empty mapping, also when alignment is requested.         *)
C8_EmptySelectionNeverAborts ==
    (/\ pc # "start"
     /\ time_periods # <<>>
     /\ Args.align_to_temp => AlignRequested)
    => /\ pc = "returned"
       /\ NonEmptyNames = {} => period_data = EmptyMap

(* C9: the alignment shift is a uniform translation within a period: the   *)
(* difference of the relative seconds of any two samples is what it was    *)
(* before the shift, and the number, order and sensor values of the        *)
(* samples are unchanged.                                                  *)
C9_ShiftIsUniformTranslation ==
    Shifted
    => \A n \in DOMAIN period_data :
          LET R == Retained(n)
          IN  /\ Len(period_data[n]) = Len(R)
              /\ \A k \in 1..Len(period_data[n]) :
                    /\ period_data[n][k].index = R[k].index
                    /\ period_data[n][k].Datetime = R[k].Datetime
                    /\ period_data[n][k].bottom = R[k].bottom
              /\ \A j, k \in 1..Len(period_data[n]) :
                    period_data[n][j].seconds - period_data[n][k].seconds
                        = R[j].rel - R[k].rel

\* a non-zero shift of a period that has a sample before its reference point
C9_Witness ==
    /\ Shifted
    /\ \E n \in DOMAIN period_data :
          /\ reference_points[n][1] # 0
          /\ FirstCrossing(n) > 1
          /\ period_data[n][1].seconds # Retained(n)[1].rel
          /\ period_data[n][1].seconds < 0

(* C10: display windowing is a pure filter: it hands on exactly the        *)
(* samples with min_seconds <= relative_seconds <= max_seconds, as one     *)
(* contiguous run in their order, and leaves the stored period data as the *)
(* call returned it, so windowing again gives what it would have given     *)
(* first.                                                                  *)
C10_DisplayFilterIsPure ==
    shown # None
    => LET df == period_data[shown[1]]
           S  == {k \in 1..Len(df) : shown[2] <= df[k].seconds /\ df[k].seconds <= shown[3]}
       IN  /\ df_filtered = [j \in 1..Cardinality(S) |-> df[Ascending(S)[j]]]
           /\ \A a, b \in S : \A k \in a..b : k \in S
           /\ period_data =
                filter_time_periods(time_periods, data, Args).period_data

\* the window drops some samples of the period and keeps others
C10_Witness ==
    /\ shown # None
    /\ df_filtered # <<>>
    /\ Len(df_filtered) < Len(period_data[shown[1]])
    /\ \E k \in 1..Len(period_data[shown[1]]) : period_data[shown[1]][k].seconds > shown[3]

(* C11: sub-filtering is consistent across zoom levels.  For mins*60 <=    *)
(* 3600 the samples create_shorter_version keeps from the [-60, 3600]      *)
(* line are exactly the samples of the aligned period with                 *)
(* -60 <= relative_seconds <= mins*60, and they are a prefix of the wider  *)
(* view.                                                                   *)
C11_ShorterVersionIsDirectWindow ==
    (shorter # None /\ shorter[1] * 60 <= max_seconds)
    => LET df == period_data[shown[1]]
           S  == {k \in 1..Len(df) :
                     -60 <= df[k].seconds /\ df[k].seconds <= shorter[1] * 60}
       IN  /\ shorter[2] = [j \in 1..Cardinality(S) |-> df[Ascending(S)[j]]]
           /\ Len(shorter[2]) <= Len(df_filtered)
           /\ \A j \in 1..Len(shorter[2]) : shorter[2][j] = df_filtered[j]

\* the shorter version keeps some samples of the wider view and drops others
C11_Witness ==
    /\ shorter # None
    /\ shorter[1] * 60 <= max_seconds
    /\ shorter[2] # <<>>
    /\ Len(shorter[2]) < Len(df_filtered)

\* relative seconds do not decrease along the rows and the rows are in file order
InInputOrder(df) ==
    \A j, k \in 1..Len(df) :
        j < k => /\ df[j].seconds <= df[k].seconds
                 /\ df[j].index < df[k].index
                 /\ df[j].Datetime <= df[k].Datetime

(* C12: on a source table with non-decreasing timestamps the               *)
(* relative_seconds of every returned period are non-decreasing in output  *)
(* order, and the output order is the input order of the retained samples, *)
(* with and without alignment and after display clipping.                  *)
C12_OutputInInputOrder ==
    pc = "returned"
    => /\ \A n \in DOMAIN period_data : InInputOrder(period_data[n])
       /\ InInputOrder(df_filtered)
       /\ shorter # None => InInputOrder(shorter[2])

\* an aligned period with a non-zero shift, clipped to two or more samples at
\* different relative seconds
C12_Witness ==
    /\ Shifted
    /\ shown # None
    /\ reference_points[shown[1]][1] # 0
    /\ Len(df_filtered) >= 2
    /\ Len(df_filtered) < Len(period_data[shown[1]])
    /\ df_filtered[1].seconds < df_filtered[Len(df_filtered)].seconds

\* the shift applied to a returned period: its own reference point, or none
OwnShift(n) == IF Shifted THEN reference_points[n][1] ELSE 0

(* C13: filter_time_periods does not mutate its inputs: the source table   *)
(* holds the same rows and values after the call (no relative-seconds      *)
(* column is added) and the declared periods are unchanged; two periods    *)
(* cut from the same table carry their own relative seconds, each shifted  *)
(* by its own reference point only.                                        *)
C13_InputsNotMutated ==
    /\ [][data' = data /\ time_periods' = time_periods]_vars
    /\ [](pc = "returned"
            => /\ \A k \in 1..Len(data) : DOMAIN data[k] = {"index", "Datetime", "bottom"}
               /\ \A n \in DOMAIN period_data :
                     LET R == Retained(n)
                     IN  \A k \in 1..Len(period_data[n]) :
                            period_data[n][k].seconds = R[k].rel - OwnShift(n))

\* two aligned periods hold the same source row at different relative seconds
C13_Witness ==
    /\ Shifted
    /\ \E n, m \in DOMAIN period_data :
          /\ n # m
          /\ reference_points[n][1] # reference_points[m][1]
          /\ \E j \in 1..Len(period_data[n]), k \in 1..Len(period_data[m]) :
                /\ period_data[n][j].index = period_data[m][k].index
                /\ period_data[n][j].seconds # period_data[m][k].seconds

\* the arguments of an exception
ErrorArguments == {error[k] : k \in 2..Len(error)}

(* C15: when the reference column is missing from the source table of a    *)
(* period, processing ends in a data error whose content names both the    *)
(* period and the missing column.                                          *)
C15_MissingColumnErrorNamesPeriodAndColumn ==
    (/\ pc # "start"
     /\ Args.align_to_temp
     /\ Args.target_temp # None
     /\ Args.apparatus_bottom_col # None
     /\ Args.apparatus_bottom_col[1] \notin Columns
     /\ NonEmptyNames # {})
    => /\ pc = "raised"
       /\ Args.apparatus_bottom_col[1] \in ErrorArguments
       /\ \E n \in NonEmptyNames : n \in ErrorArguments

(* C16: when alignment is requested, the result of the aligner contains,   *)
(* besides the mapping from period name to series, the shift applied to    *)
(* each period.                                                            *)
C16_ResultCarriesShifts ==
    Shifted
    => /\ Len(result) = 2
       /\ result[1] = period_data
       /\ DOMAIN result[2] = DOMAIN period_data
       /\ \A n \in DOMAIN period_data : result[2][n] = reference_points[n][1]

(* C18: a period skipped for an empty selection does not count as one that *)
(* never reaches the target: when alignment is requested and every period  *)
(* with a non-empty selection has a crossing, all of those are aligned     *)
(* whether or not other periods were skipped.                              *)
C18_SkippedPeriodDoesNotBlockAlignment ==
    (/\ pc # "start"
     /\ AlignRequested
     /\ NonEmptyNames # {}
     /\ \A n \in NonEmptyNames : Crosses(n))
    => /\ pc = "returned"
       /\ DOMAIN period_data = NonEmptyNames
       /\ \A n \in NonEmptyNames :
             LET R == Retained(n)
                 c == FirstCrossing(n)
             IN  /\ period_data[n][c].seconds = 0
                 /\ \A k \in 1..Len(period_data[n]) :
                       period_data[n][k].seconds = R[k].rel - R[c].rel

\* one period is skipped as empty, the other one is moved by a non-zero shift
C18_Witness ==
    /\ pc = "returned"
    /\ AlignRequested
    /\ NonEmptyNames # {}
    /\ NonEmptyNames # InputNames
    /\ \A n \in NonEmptyNames : Crosses(n)
    /\ \E n \in DOMAIN period_data :
          /\ reference_points[n][1] # 0
          /\ period_data[n][1].seconds # -Args.start_offset

(* C19: called with align_to_temp true but target_temp or                  *)
(* apparatus_bottom_col left as None, filter_time_periods performs no      *)
(* alignment and returns the Step-3 mapping of the periods with a          *)
(* non-empty selection.                                                    *)
C19_AlignWithoutTargetReturnsStep3 ==
    (/\ pc # "start"
     /\ Args.align_to_temp
     /\ (Args.target_temp = None \/ Args.apparatus_bottom_col = None)
     /\ NonEmptyNames # {})
    => /\ pc = "returned"
       /\ DOMAIN period_data = NonEmptyNames
       /\ \A n \in DOMAIN period_data : AtStep3(n)

\* the declarations another period could have had
OtherPeriods(n) ==
    UNION {TimeRanges(PeriodNames[k]) : k \in {j \in DOMAIN PeriodNames : PeriodNames[j] # n}}

(* C20: when alignment succeeds the relative seconds of a period depend    *)
(* only on its own samples and reference point: the call with this period  *)
(* alone, or with any other declaration of the other period that still has *)
(* a crossing, returns the same values for it, whatever the average        *)
(* reference time is.  Stated of the mapping as the call returns it.       *)
C20_AlignedValuesDependOnOwnPeriod ==
    (Shifted /\ shown = None)
    => \A n \in DOMAIN period_data :
          /\ period_data[n] =
                filter_time_periods(<<Period(n)>>, data, Args).period_data[n]
          /\ \A q \in OtherPeriods(n) :
                LET r == filter_time_periods(<<q, Period(n)>>, data, Args)
                IN  (r.error = None /\ AllFound(r.reference_points))
                       => r.period_data[n] = period_data[n]

\* two aligned periods with different reference points, so that the average
\* differs from the reference point of each
C20_Witness ==
    /\ Shifted
    /\ Cardinality(DOMAIN period_data) = 2
    /\ \A n \in DOMAIN period_data :
          reference_points[n][1] * avg_reference_time[2] # avg_reference_time[1]

(* C17 as stated: in the concrete scenario (start T0, pre-roll 120 s,      *)
(* samples every 10 s from T0 - 130 s to T0 + 600 s, 50.0 until 40.0 at    *)
(* T0 + 50 s, target 44.0) the first crossing is recorded at               *)
(* relative_seconds = -70.                                                 *)
C17_CrossingAtMinus70 ==
    (pc # "start" /\ Args.align_to_temp)
    => /\ "A" \in DOMAIN reference_points
       /\ reference_points["A"] = <<-70>>

(* C17 amended: in the concrete scenario the first retained sample is the  *)
(* one at T0 - 120 s, the crossing sample at T0 + 50 s is 170 s after it,  *)
(* and the first crossing is recorded at relative_seconds = 170 - 120 =    *)
(* 50; the aligned call puts that sample at 0.                             *)
C17_CrossingAt50 ==
    (pc # "start" /\ Args.align_to_temp)
    => /\ pc = "returned"
       /\ "A" \in DOMAIN reference_points
       /\ reference_points["A"] = <<50>>
       /\ period_data["A"][1].Datetime = time_periods[1].start - 120
       /\ \A k \in 1..Len(period_data["A"]) :
             period_data["A"][k].Datetime = time_periods[1].start + 50
                => period_data["A"][k].seconds = 0

\* the aligned call returned the 73 samples from T0 - 120 s on, the sample at
\* T0 - 130 s left out, with a crossing found
C17_Witness ==
    /\ pc = "returned"
    /\ Args.align_to_temp
    /\ Len(data) = 74
    /\ data[1].Datetime = time_periods[1].start - 130
    /\ Len(period_data["A"]) = 73
    /\ reference_points["A"] # None
    /\ \E k \in 1..Len(period_data["A"]) :
          /\ period_data["A"][k].Datetime = time_periods[1].start + 50
          /\ period_data["A"][k].bottom = 400
          /\ period_data["A"][k - 1].bottom = 500

----------------------------------------------------------------------------
(* C21 as stated: every recorded reference point r of a period lies        *)
(* between -preroll and (last retained timestamp - first retained          *)
(* timestamp) - preroll, it equals -preroll exactly when the first         *)
(* retained sample is already at or below the target, and after a          *)
(* successful alignment the first retained sample of the period has        *)
(* relative_seconds -preroll - r, which is not positive.                   *)
C21_PrerollIffFirstSampleCrosses ==
    (pc = "returned" /\ AlignRequested)
    => \A n \in DOMAIN reference_points :
          reference_points[n] # None
          => LET r     == reference_points[n][1]
                 W     == InWindow(n)
                 first == data[SetMin(W)]
                 last  == data[SetMax(W)]
             IN  /\ -Args.start_offset <= r
                 /\ r <= (last.Datetime - first.Datetime) - Args.start_offset
                 /\ (r = -Args.start_offset) <=> (first.bottom <= Args.target_temp[1])
                 /\ Shifted
                       => /\ period_data[n][1].seconds = -Args.start_offset - r
                          /\ period_data[n][1].seconds <= 0

(* C21 amended: the range and the position of the first retained sample    *)
(* are as stated; r equals -preroll exactly when some retained sample      *)
(* with the first retained timestamp is at or below the target, which is   *)
(* the first retained sample itself when no other sample shares its        *)
(* timestamp.                                                              *)
C21_ReferencePointRange ==
    (pc = "returned" /\ AlignRequested)
    => \A n \in DOMAIN reference_points :
          reference_points[n] # None
          => LET r     == reference_points[n][1]
                 W     == InWindow(n)
                 first == data[SetMin(W)]
                 last  == data[SetMax(W)]
                 tied  == {k \in W : data[k].Datetime = first.Datetime}
             IN  /\ -Args.start_offset <= r
                 /\ r <= (last.Datetime - first.Datetime) - Args.start_offset
                 /\ (r = -Args.start_offset)
                       <=> (\E k \in tied : data[k].bottom <= Args.target_temp[1])
                 /\ first.bottom <= Args.target_temp[1] => r = -Args.start_offset
                 /\ Cardinality(tied) = 1
                       => ((r = -Args.start_offset)
                              <=> (first.bottom <= Args.target_temp[1]))
                 /\ Shifted
                       => /\ period_data[n][1].seconds = -Args.start_offset - r
                          /\ period_data[n][1].seconds <= 0

\* an aligned period whose first retained sample is above the target while a
\* second sample with the same timestamp is at the target; a later sample follows
C21_Witness ==
    /\ Shifted
    /\ AlignRequested
    /\ \E n \in DOMAIN reference_points :
          /\ reference_points[n][1] = -Args.start_offset
          /\ Len(period_data[n]) = 3
          /\ period_data[n][1].bottom > Args.target_temp[1]
          /\ period_data[n][2].Datetime = period_data[n][1].Datetime
          /\ period_data[n][2].bottom <= Args.target_temp[1]
          /\ period_data[n][3].Datetime > period_data[n][1].Datetime
          /\ period_data[n][1].seconds = 0

----------------------------------------------------------------------------
(* C22: the extraction code written out in figure_indoorheating.py leaves  *)
(* what filter_time_periods returns for align_to_temp=True with the same   *)
(* pre-roll, target and reference column, and the code written out in      *)
(* figure_indoorheating_65c.py leaves what it returns for                  *)
(* align_to_temp=False: the same periods with the same rows and relative   *)
(* seconds, the same reference points, and a failure on the same inputs.   *)
C22_InlineEqualsFilterTimePeriods ==
    pc # "start"
    => LET st == filter_time_periods(time_periods, data, Args)
       IN  /\ (pc = "raised") <=> (st.error # None)
           /\ error = st.error
           /\ pc = "returned" => period_data = st.period_data
           /\ reference_points = st.reference_points
           /\ data = st.source_data

\* the inline alignment has shifted two periods by different amounts
C22_Witness ==
    /\ pc = "returned"
    /\ Args.align_to_temp
    /\ \E n, m \in DOMAIN period_data :
          /\ reference_points[n] # None
          /\ reference_points[m] # None
          /\ reference_points[n][1] # reference_points[m][1]
          /\ period_data[n][1].seconds # period_data[m][1].seconds
          /\ period_data[n] =
                filter_time_periods(time_periods, data, Args).period_data[n]

----------------------------------------------------------------------------
(* figure_resyncexp: the vocabulary of the claims                          *)

\* the positions of the 'boro'/'caf2' rows among the rows of adjusts.csv, in order
GlassRowPositions ==
    Ascending({k \in 1..Len(resyncexp.adjusts) :
                  resyncexp.adjusts[k].adjustment_type \in {"boro", "caf2"}})

\* the clock time a row of adjusts.csv stands for: hours before 9 are afternoon hours
RowTime(k) ==
    LET t == resyncexp.adjusts[k].time
        h == t[1]
        m == IF Len(t) = 2 THEN t[2] ELSE 0
    IN  (IF h < 9 THEN h + 12 ELSE h) * 60 + m

AllRowsProcessed == resyncexp # None /\ resyncexp.pc \in {"regions", "done"}

(* C23: once every adjustment row is processed the glass regions tile the  *)
(* time line: there are as many regions as 'boro'/'caf2' rows, region k    *)
(* starts at the time of the k-th glass row and has its glass type, it     *)
(* ends exactly where region k+1 starts, and the last region ends at       *)
(* experiment_end; a step that processes an 'adjust' row appends one       *)
(* adjustment marker and leaves the regions, the current glass and the     *)
(* start of the open region as they were.  A 'time' column of bare        *)
(* integers stops the script with a TypeError at its first row: no row is  *)
(* processed and no region or marker exists then.                          *)
C23_GlassRegionsTile ==
    /\ [](AllRowsProcessed
          => LET regions == resyncexp.glass_regions
                 glass   == GlassRowPositions
             IN  /\ Len(regions) = Len(glass)
                 /\ \A k \in 1..Len(regions) :
                       /\ regions[k].type = resyncexp.adjusts[glass[k]].adjustment_type
                       /\ regions[k].start = RowTime(glass[k])
                 /\ \A k \in 1..(Len(regions) - 1) : regions[k].end = regions[k + 1].start
                 /\ regions # <<>> => regions[Len(regions)].end = resyncexp.experiment_end)
    /\ [][(/\ resyncexp # None
           /\ resyncexp.pc = "rows"
           /\ resyncexp.row < Len(resyncexp.adjusts)
           /\ resyncexp.adjusts[resyncexp.row + 1].adjustment_type = "adjust")
          => /\ resyncexp'.glass_regions = resyncexp.glass_regions
             /\ resyncexp'.current_glass = resyncexp.current_glass
             /\ resyncexp'.region_start = resyncexp.region_start
             /\ resyncexp'.adjustments =
                   IF resyncexp'.pc = "raised"
                   THEN resyncexp.adjustments
                   ELSE Append(resyncexp.adjustments, RowTime(resyncexp.row + 1))]_vars

\* two regions of different glass with an adjustment between the glass changes
C23_Witness ==
    /\ AllRowsProcessed
    /\ Len(resyncexp.glass_regions) = 2
    /\ resyncexp.glass_regions[1].type # resyncexp.glass_regions[2].type
    /\ resyncexp.glass_regions[1].end = resyncexp.glass_regions[2].start
    /\ resyncexp.glass_regions[2].end = resyncexp.experiment_end
    /\ Len(resyncexp.adjustments) = 1
    /\ resyncexp.adjusts[2].adjustment_type = "adjust"
    /\ Len(resyncexp.adjusts[2].time) = 1

(* C24: every glass region that is shaded has start <= end, for every      *)
(* sequence of adjustment rows and every data time range.                  *)
C24_ShadedRegionsAreOrdered ==
    (resyncexp # None /\ resyncexp.pc = "done")
    => \A k \in 1..Len(resyncexp.shaded) :
          resyncexp.shaded[k][1] <= resyncexp.shaded[k][2]

----------------------------------------------------------------------------
(* figure-sep13exp: the vocabulary of the claims                           *)

\* start and end of the i-th annotation in half seconds of the day: it lasts until
\* the next annotation starts, the last one until the data end
AnnoStart(i) ==
    7200 * sep13exp.annotations[i].time[1] + 120 * sep13exp.annotations[i].time[2]

AnnoEnd(i) ==
    IF i = Len(sep13exp.annotations) THEN sep13exp.experiment_end ELSE AnnoStart(i + 1)

LastBBBB ==
    {i \in 1..Len(sep13exp.annotations) :
        /\ sep13exp.annotations[i].geometry = "BBBB"
        /\ \A j \in (i + 1)..Len(sep13exp.annotations) :
              sep13exp.annotations[j].geometry # "BBBB"}

(* C25: plot_end_time is the end of the last annotation whose              *)
(* configuration is BBBB, or 17:15 of the experiment date when there is    *)
(* none; no shaded span extends beyond plot_end_time, an annotation that   *)
(* starts after plot_end_time gets no span, no line and no label, and a    *)
(* label is placed only when the midpoint of the annotation's unclipped    *)
(* interval is at or before plot_end_time.                                 *)
C25_NothingDrawnPastPlotEnd ==
    (sep13exp # None /\ sep13exp.pc = "draw")
    => LET r   == sep13exp
           pet == r.plot_end_time[1]
       IN  /\ \A i \in LastBBBB : pet = AnnoEnd(i)
           /\ LastBBBB = {} => pet = 17 * 7200 + 15 * 120
           /\ \A k \in 1..Len(r.spans) :
                 /\ r.spans[k].end <= pet
                 /\ r.spans[k].start = AnnoStart(r.spans[k].of)
                 /\ r.spans[k].end \in {AnnoEnd(r.spans[k].of), pet}
           /\ \A i \in 1..r.i :
                 AnnoStart(i) > pet
                 => /\ \A k \in 1..Len(r.spans) : r.spans[k].of # i
                    /\ \A k \in 1..Len(r.lines) : r.lines[k].of # i
                    /\ \A k \in 1..Len(r.labels) : r.labels[k].of # i
           /\ \A k \in 1..Len(r.labels) :
                 LET i == r.labels[k].of
                 IN  /\ 2 * r.labels[k].at = AnnoStart(i) + AnnoEnd(i)
                     /\ AnnoStart(i) + AnnoEnd(i) <= 2 * pet

\* the plot ends with the last BBBB section: a span is clipped and gets no
\* label, another span is labelled, and one annotation is not drawn at all
C25_Witness ==
    /\ sep13exp # None
    /\ sep13exp.pc = "draw"
    /\ sep13exp.i = Len(sep13exp.anno_list)
    /\ LastBBBB # {}
    /\ \E k \in 1..Len(sep13exp.spans) :
          /\ sep13exp.spans[k].end < AnnoEnd(sep13exp.spans[k].of)
          /\ \A j \in 1..Len(sep13exp.labels) : sep13exp.labels[j].of # sep13exp.spans[k].of
    /\ sep13exp.labels # <<>>
    /\ \E i \in 1..Len(sep13exp.anno_list) :
          \A k \in 1..Len(sep13exp.spans) : sep13exp.spans[k].of # i

----------------------------------------------------------------------------
(* figure1: the vocabulary of the claims                                   *)

\* the interval of a configuration as the script places it: its clock times,
\* displaced by the seconds part of the first data timestamp
RegionFrom(i) ==
    3600 * Figure1Annotations[i].start_time[1] + 60 * Figure1Annotations[i].start_time[2]
        + (figure1.experiment_start % 60)

RegionTo(i) ==
    3600 * Figure1Annotations[i].end_time[1] + 60 * Figure1Annotations[i].end_time[2]
        + (figure1.experiment_start % 60)

(* C26: a configuration region is shaded only when its interval overlaps   *)
(* the data range, and every shaded region is capped to the data range:    *)
(* experiment_start <= region start <= region end <= experiment_end.       *)
C26_ShadedRegionsInsideDataRange ==
    (figure1 # None /\ figure1.pc = "shade")
    => /\ \A k \in 1..Len(figure1.spans) :
             LET span == figure1.spans[k]
             IN  /\ RegionFrom(span.of) <= figure1.experiment_end
                 /\ RegionTo(span.of) >= figure1.experiment_start
                 /\ figure1.experiment_start <= span.start
                 /\ span.start <= span.end
                 /\ span.end <= figure1.experiment_end
                 /\ span.start \in {RegionFrom(span.of), figure1.experiment_start}
                 /\ span.end \in {RegionTo(span.of), figure1.experiment_end}
       /\ \A i \in 1..figure1.i :
             (RegionFrom(i) > figure1.experiment_end \/ RegionTo(i) < figure1.experiment_start)
             => \A k \in 1..Len(figure1.spans) : figure1.spans[k].of # i

\* the data start inside one region and end inside another: one region is not
\* shaded, one is capped at its start, one at its end
C26_Witness ==
    /\ figure1 # None
    /\ figure1.pc = "shade"
    /\ figure1.i = Len(Figure1Annotations)
    /\ Len(figure1.spans) < Len(Figure1Annotations)
    /\ \E j, k \in 1..Len(figure1.spans) :
          /\ j < k
          /\ figure1.spans[j].start < figure1.spans[j].end
          /\ figure1.spans[k].start < figure1.spans[k].end
          /\ figure1.spans[j].start = figure1.experiment_start
          /\ figure1.spans[j].start > RegionFrom(figure1.spans[j].of)
          /\ figure1.spans[j].end = RegionTo(figure1.spans[j].of)
          /\ figure1.spans[k].start = RegionFrom(figure1.spans[k].of)
          /\ figure1.spans[k].end = figure1.experiment_end
          /\ figure1.spans[k].end < RegionTo(figure1.spans[k].of)

----------------------------------------------------------------------------
(* format_time: reading a label back                                       *)

DigitValue(c) == CHOOSE d \in 0..9 : DigitChars[d + 1] = c

IsDigits(str) == \A k \in 1..Len(str) : \E d \in 0..9 : DigitChars[d + 1] = str[k]

RECURSIVE NumberOf(_)
NumberOf(str) ==
    IF str = <<>> THEN 0
    ELSE 10 * NumberOf(SubSeq(str, 1, Len(str) - 1)) + DigitValue(str[Len(str)])

\* the label without its sign, the text before its colon and the text after it
Unsigned(label) == IF label[1] = "-" THEN Tail(label) ELSE label

ColonAt(label) == CHOOSE k \in 1..Len(label) : label[k] = ":"

MinutesField(label) == SubSeq(Unsigned(label), 1, ColonAt(Unsigned(label)) - 1)

SecondsField(label) ==
    SubSeq(Unsigned(label), ColonAt(Unsigned(label)) + 1, Len(Unsigned(label)))

\* sign, digits, one colon, two digits below 60, and the value shown is |s|
WellFormedLabel(label, s) ==
    /\ (label[1] = "-") <=> (s < 0)
    /\ Cardinality({k \in 1..Len(label) : label[k] = ":"}) = 1
    /\ IsDigits(MinutesField(label))
    /\ IsDigits(SecondsField(label))
    /\ Len(SecondsField(label)) = 2
    /\ NumberOf(SecondsField(label)) \in 0..59
    /\ NumberOf(SecondsField(label)) = (IF s < 0 THEN -s ELSE s) % 60
    /\ NumberOf(MinutesField(label)) = (IF s < 0 THEN -s ELSE s) \div 60
    /\ 60 * NumberOf(MinutesField(label)) + NumberOf(SecondsField(label))
          = (IF s < 0 THEN -s ELSE s)

(* C27 as stated: for every integer s format_time returns the two-digit    *)
(* zero-padded minutes floor(|s|/60), a colon and the two-digit seconds    *)
(* |s| mod 60 (always in 00..59), prefixed with '-' exactly when s < 0, so *)
(* that 60*MM + SS = |s|.                                                  *)
C27_TwoDigitMinutes ==
    (tick # None /\ tick.label # None)
    => /\ WellFormedLabel(tick.label[1], tick.seconds)
       /\ Len(MinutesField(tick.label[1])) = 2

(* C27 amended: the minutes floor(|s|/60) are zero-padded to at least two  *)
(* digits: exactly two digits when |s| < 6000 and as many digits as the    *)
(* number has from there on; the rest is as stated: a colon, the two-digit *)
(* seconds |s| mod 60 in 00..59, a '-' in front exactly when s < 0, and    *)
(* 60*MM + SS = |s|.                                                       *)
C27_LabelShowsAbsoluteValue ==
    (tick # None /\ tick.label # None)
    => LET label == tick.label[1]
           s     == tick.seconds
           abs   == IF s < 0 THEN -s ELSE s
       IN  /\ WellFormedLabel(label, s)
           /\ Len(MinutesField(label)) >= 2
           /\ (Len(MinutesField(label)) = 2) <=> (abs < 6000)
           /\ abs >= 6000 => MinutesField(label)[1] # "0"

\* a negative tick of more than a minute whose minutes and seconds are both padded
C27_Witness ==
    /\ tick # None
    /\ tick.seconds = -65
    /\ tick.label = <<(<<"-", "0", "1", ":", "0", "5">>)>>

----------------------------------------------------------------------------
\* the three paths in the order generate_all_data writes them
WriteOrder == <<bb_path, boro_path, caf2_path>>

\* the paths that held nothing when load_data was called
MissingBefore == {f \in DataFiles : figure4.before.files[f] = None}

\* load_data has come to its reads
ReadsReached == figure4.pc \in {"read_csv", "returned"} \/ figure4.read # <<>>

(* C28: load_data triggers the generation exactly when at least one of the *)
(* three CSV files is missing.  When all three exist it writes no file and *)
(* creates no directory.  When the generation is triggered the files are   *)
(* written in the order blackbody, borosilicate, CaF2, a file that was     *)
(* there being replaced by the generated data and every path not yet       *)
(* written keeping what it held; whenever load_data comes to its reads     *)
(* after a generation all three files have been written and hold the       *)
(* generated data, so that no read finds a file missing.                   *)
C28_GenerateIffSomeFileMissing ==
    (figure4 # None /\ figure4.pc # "load_data")
    => /\ figure4.generate <=> (MissingBefore # {})
       /\ MissingBefore = {}
             => /\ figure4.written = <<>>
                /\ figure4.files = figure4.before.files
                /\ figure4.data_dir = figure4.before.data_dir
       /\ Len(figure4.written) <= 3
       /\ figure4.written = SubSeq(WriteOrder, 1, Len(figure4.written))
       /\ \A k \in 1..3 :
             figure4.files[WriteOrder[k]] =
                IF k <= Len(figure4.written)
                THEN <<[kind |-> "generated", writable |-> TRUE]>>
                ELSE figure4.before.files[WriteOrder[k]]
       /\ (figure4.generate /\ ReadsReached)
             => /\ figure4.written = WriteOrder
                /\ \A f \in DataFiles : figure4.files[f][1].kind = "generated"
       /\ ReadsReached
             => /\ \A f \in DataFiles : figure4.files[f] # None
                /\ figure4.error # None => figure4.error[1] # "FileNotFoundError"

\* one file was missing and the two others held other data: all three were written,
\* the existing ones replaced, and then read
C28_Witness ==
    /\ figure4 # None
    /\ figure4.pc = "returned"
    /\ figure4.before.files[bb_path] = <<[kind |-> "other", writable |-> TRUE]>>
    /\ figure4.before.files[boro_path] = None
    /\ figure4.before.files[caf2_path] = <<[kind |-> "other", writable |-> TRUE]>>
    /\ figure4.written = WriteOrder
    /\ figure4.read = WriteOrder
    /\ figure4.loaded = <<(<<"generated", "generated", "generated">>)>>

====
